---- MODULE Spec2Model ----
(***************************************************************************)
(* Verification model of the code-symbol indexing and hybrid search engine *)
(* of smem-cli-enterprise.                                                 *)
(*                                                                         *)
(* The module holds one group of variables per subsystem and one           *)
(* specification per subsystem:                                            *)
(*   SpecVec    - the vector backends (VecBackend, VssBackend, SqliteVec)  *)
(*                and UnifiedVectorBackend's backend selection             *)
(*   SpecIdx    - HybridSearchDatabase.indexFile                           *)
(*   SpecSearch - HybridSearchDatabase.hybridSearch / textOnlySearch and   *)
(*                the search-code command                                  *)
(*   SpecChunk  - the chunking tiers of EnhancedCodeIndexer and            *)
(*                TreeSitterIndexer                                        *)
(*   SpecAst    - TreeSitterIndexer's symbol extraction from a parse tree  *)
(*   SpecCtx    - the export-context and import-context commands           *)
(*   SpecCmd    - the remember and recall handlers and TracingService      *)
(***************************************************************************)
EXTENDS Integers, Sequences, FiniteSets, TLC

VARIABLES
  \* ---- vector backends ----
  pc,        \* "start" before backend selection, "ready" after it
  platform,  \* os.platform(): "win32" or "linux"
  active,    \* the backend object in use: "null" | "vec" | "vss" | "sqlitevec"
  loaded,    \* the backend's private field loaded
  dim,       \* the backend's private field dim; 0 stands for null
  items,     \* table memory_items: set of [id, key]
  rows,      \* the vector virtual table: rowid -> vector
  tableDim,  \* dimension the virtual table was created with; 0 = no table
  orig,      \* history: rowid -> the external id the caller passed to upsert
  selfTest,  \* history: what the load-time self-test did
  last,      \* observation of the last call (arguments, result, error)
  \* ---- symbol index ----
  codeFiles,   \* table code_files: set of [id, path, sha256]
  codeSymbols, \* table code_symbols: set of rows
  codeEmb,     \* table code_symbols_embedding: symbol id -> embedding
  codeFts,     \* table code_symbols_fts: rowid -> [name, doc, body]
  lastIdx,     \* observation of the last indexFile call
  \* ---- search ----
  index,     \* the searched symbols with their lexical and vector signals
  res,       \* result list of the last search
  srch,      \* observation of the last search (arguments, mode, error)
  \* ---- chunking ----
  initialized, \* EnhancedCodeIndexer.initialized
  treeSitterAvailable, \* TreeSitterIndexer.treeSitterAvailable
  files,       \* the file system: path -> lines, or Unreadable
  chunkObs,    \* observation of the last chunking call
  \* ---- AST symbol extraction ----
  ast,         \* the parsed file: [language, lineCount, nodes]
  astObs,      \* observation of the last extractSymbols call
  \* ---- context bundles ----
  memories,    \* the stored memories of type code, in id order
  bundle,      \* the bundle directory at the export path, or NoBundle
  ctxObs,      \* observation of the last export-context / import-context run
  \* ---- commands and receipts ----
  receipts,    \* the receipts written so far
  journal,     \* the journal entries appended so far
  cmdObs       \* observation of the last command run

vecVars == <<pc, platform, active, loaded, dim, items, rows, tableDim, orig, selfTest, last>>

idxVars == <<codeFiles, codeSymbols, codeEmb, codeFts, lastIdx>>

srchVars == <<index, res, srch>>

chkVars == <<initialized, treeSitterAvailable, files, chunkObs>>

astVars == <<ast, astObs>>

ctxVars == <<memories, bundle, ctxObs>>

cmdVars == <<receipts, journal, cmdObs>>

vars == <<vecVars, idxVars, srchVars, chkVars, astVars, ctxVars, cmdVars>>

(***************************************************************************)
(* Bounds                                                                  *)
(***************************************************************************)
MaxItems == 3

MaxVal == 1

MaxTopK == 2

MaxSyms == 2

NumSymbols == 2

(***************************************************************************)
(* Program constants                                                       *)
(***************************************************************************)
TestDim == 384

SentinelId == 999999

DefaultExpectedDim == 384

\* External ids offered to upsert; -1 is an id the validation rejects.
ExtIds == {0, 12, -1}

\* Vector lengths offered to ensureTable, upsert and queryNearest.
VecLens == {384, 768}

Vectors == [len : VecLens, val : 0..MaxVal]

NoCall == [op |-> "none"]

(***************************************************************************)
(* Key mapping: `memory_${id}` and parseInt(key.replace('memory_', ''))    *)
(***************************************************************************)
RECURSIVE Digits(_)
Digits(n) ==
  IF n < 10 THEN <<n>> ELSE Append(Digits(n \div 10), n % 10)

KeyOf(id) == [prefix |-> "memory_", digits |-> Digits(id)]

RECURSIVE ParseInt(_)
ParseInt(s) ==
  IF s = <<>> THEN 0
  ELSE ParseInt(SubSeq(s, 1, Len(s) - 1)) * 10 + s[Len(s)]

ParseKey(key) == ParseInt(key.digits)

MaxId(its) ==
  IF its = {} THEN 0 ELSE CHOOSE m \in {r.id : r \in its} : \A r \in its : r.id <= m

\* Mutation: the conflict clause is lost, every call inserts a fresh row.
GetOrCreateIdForKey_AlwaysInsert(its, key) ==
  [items |-> its \cup {[id |-> MaxId(its) + 1, key |-> key]},
   id |-> MaxId(its) + 1]

\* INSERT ... ON CONFLICT(key) DO UPDATE ... RETURNING id
GetOrCreateIdForKey(its, key) ==
  IF \E r \in its : r.key = key
  THEN [items |-> its, id |-> (CHOOSE r \in its : r.key = key).id]
  ELSE [items |-> its \cup {[id |-> MaxId(its) + 1, key |-> key]},
        id |-> MaxId(its) + 1]

AssertDim(v, expected) == v.len = expected

(***************************************************************************)
(* The backend object and its tables as one record, so that tryLoad can    *)
(* run ensureTable/upsert/count inside one step.                           *)
(***************************************************************************)
World == [loaded |-> loaded, dim |-> dim, items |-> items, rows |-> rows,
          tableDim |-> tableDim, orig |-> orig, threw |-> "none"]

EmptyWorld == [loaded |-> FALSE, dim |-> 0, items |-> {}, rows |-> <<>>,
               tableDim |-> 0, orig |-> <<>>, threw |-> "none"]

Put(f, k, v) == [x \in (DOMAIN f) \cup {k} |-> IF x = k THEN v ELSE f[x]]

\* CREATE VIRTUAL TABLE IF NOT EXISTS: creates the table only when absent.
CreateIfNotExists(w, d) == IF w.tableDim = 0 THEN d ELSE w.tableDim

VecEnsureTable(w, d, createOk) ==
  IF ~w.loaded THEN w
  ELSE IF w.dim = d THEN w
  ELSE IF createOk
       THEN [w EXCEPT !.dim = d, !.tableDim = CreateIfNotExists(w, d)]
       ELSE [w EXCEPT !.loaded = FALSE]

VssEnsureTable(w, d, createOk) ==
  IF ~w.loaded THEN w
  ELSE IF w.dim = d THEN w
  ELSE IF createOk
       THEN [w EXCEPT !.dim = d, !.tableDim = CreateIfNotExists(w, d)]
       ELSE [w EXCEPT !.loaded = FALSE]

SqliteVecEnsureTable(w, d, createOk) ==
  IF ~w.loaded THEN w
  ELSE IF w.dim = d THEN w
  ELSE IF createOk
       THEN [w EXCEPT !.dim = d, !.tableDim = CreateIfNotExists(w, d)]
       ELSE [w EXCEPT !.loaded = FALSE]

\* Outcomes of the native INSERT OR REPLACE: "ok", "err" (an error whose
\* message does not contain 'dimension') or "errdim" (one whose message does).
\* A fixed-width vector column accepts only vectors of the table's width.
InsertOutcomes(w, v) ==
  IF w.tableDim # 0 /\ v.len = w.tableDim THEN {"ok", "err", "errdim"}
  ELSE {"err", "errdim"}

VecUpsert(w, id, v, ins) ==
  IF ~w.loaded \/ w.dim = 0 THEN w
  ELSE IF ~AssertDim(v, w.dim) THEN [w EXCEPT !.threw = "dimension"]
  ELSE IF id < 0 THEN w
  ELSE LET m == GetOrCreateIdForKey(w.items, KeyOf(id))
           w1 == [w EXCEPT !.items = m.items]
       IN  CASE ins = "ok" ->
                  [w1 EXCEPT !.rows = Put(w.rows, m.id, v),
                             !.orig = Put(w.orig, m.id, id)]
             [] ins = "err" -> w1
             [] ins = "errdim" -> [w1 EXCEPT !.threw = "dimension"]

VssUpsert(w, id, v, ins) ==
  IF ~w.loaded \/ w.dim = 0 THEN w
  ELSE IF ins = "ok"
       THEN [w EXCEPT !.rows = Put(w.rows, id, v), !.orig = Put(w.orig, id, id)]
       ELSE [w EXCEPT !.loaded = FALSE]

SqliteVecUpsert(w, id, v, ins) ==
  IF ~w.loaded \/ w.dim = 0 THEN w
  ELSE IF ins = "ok"
       THEN [w EXCEPT !.rows = Put(w.rows, id, v), !.orig = Put(w.orig, id, id)]
       ELSE [w EXCEPT !.loaded = FALSE]

\* count(): SELECT COUNT(*) of the vector table, 0 when not loaded.
CountOf(w) == IF ~w.loaded THEN 0 ELSE Cardinality(DOMAIN w.rows)

(***************************************************************************)
(* queryNearest                                                            *)
(***************************************************************************)
Dist(v, q) == IF v.val >= q.val THEN v.val - q.val ELSE q.val - v.val

Min(a, b) == IF a <= b THEN a ELSE b

Take(s, k) == SubSeq(s, 1, Min(k, Len(s)))

Perms(S) ==
  {f \in [1..Cardinality(S) -> S] : \A x \in S : \E i \in DOMAIN f : f[i] = x}

\* ORDER BY distance: every order of the hits that is ascending in distance
\* (SQL leaves the order of equal keys open).
OrderByDistance(hits) ==
  {s \in Perms(hits) :
     \A i, j \in DOMAIN s : i < j => s[i].distance <= s[j].distance}

\* vec JOIN memory_items ON items.id = vec.id
VecJoin(w, q) ==
  {[rowid |-> r.id, key |-> r.key, distance |-> Dist(w.rows[r.id], q)] :
     r \in {x \in w.items : x.id \in DOMAIN w.rows}}

\* The possible return values of VecBackend.queryNearest, each with the
\* rowids behind it (history).
VecQueryNearest(w, q, topk, qok) ==
  IF ~w.loaded \/ w.dim = 0 THEN {[result |-> <<>>, rowids |-> <<>>]}
  ELSE IF ~AssertDim(q, w.dim) THEN {[result |-> <<>>, rowids |-> <<>>]}
  ELSE IF ~qok THEN {[result |-> <<>>, rowids |-> <<>>]}
  ELSE {[result |-> [i \in DOMAIN t |->
                       [id |-> ParseKey(t[i].key), distance |-> t[i].distance]],
         rowids |-> [i \in DOMAIN t |-> t[i].rowid]] :
          t \in {Take(s, topk) : s \in OrderByDistance(VecJoin(w, q))}}

RowHits(w, q) ==
  {[rowid |-> r, distance |-> Dist(w.rows[r], q)] : r \in DOMAIN w.rows}

VssQueryNearest(w, q, topk, qok) ==
  IF ~w.loaded \/ w.dim = 0 THEN {[result |-> <<>>, rowids |-> <<>>]}
  ELSE IF ~qok THEN {[result |-> <<>>, rowids |-> <<>>]}
  ELSE {[result |-> [i \in DOMAIN t |->
                       [id |-> t[i].rowid, distance |-> t[i].distance]],
         rowids |-> [i \in DOMAIN t |-> t[i].rowid]] :
          t \in {Take(s, topk) : s \in OrderByDistance(RowHits(w, q))}}

SqliteVecQueryNearest(w, q, topk, qok) ==
  IF ~w.loaded \/ w.dim = 0 THEN {[result |-> <<>>, rowids |-> <<>>]}
  ELSE IF ~qok THEN {[result |-> <<>>, rowids |-> <<>>]}
  ELSE {[result |-> [i \in DOMAIN t |->
                       [id |-> t[i].rowid, distance |-> t[i].distance]],
         rowids |-> [i \in DOMAIN t |-> t[i].rowid]] :
          t \in {Take(s, topk) : s \in OrderByDistance(RowHits(w, q))}}

(***************************************************************************)
(* Backend loading and selection                                           *)
(***************************************************************************)
Envs == [vectorExists : BOOLEAN, vectorLoadOk : BOOLEAN,
         vssExists : BOOLEAN, vssLoadOk : BOOLEAN,
         manualExists : BOOLEAN, manualLoadOk : BOOLEAN,
         npmExists : BOOLEAN, npmLoadOk : BOOLEAN,
         createOk : BOOLEAN, ins : {"ok", "err", "errdim"}]

NoSelfTest == [ran |-> FALSE, created |-> FALSE, inserted |-> FALSE,
               queried |-> FALSE, counted |-> FALSE]

TestVec == [len |-> TestDim, val |-> 0]

\* The self-test block of VecBackend.tryLoad, entered with loaded = true.
VecSelfTest(w, e) ==
  LET w0 == [w EXCEPT !.loaded = TRUE]
      w1 == VecEnsureTable(w0, TestDim, e.createOk)
      w2 == VecUpsert(w1, SentinelId, TestVec, e.ins)
      w3 == IF w2.threw # "none"
            THEN [w2 EXCEPT !.loaded = FALSE, !.threw = "none"]
            ELSE w2
  IN  [w |-> w3,
       test |-> [ran |-> TRUE,
                 created |-> w1.loaded /\ w1.dim = TestDim,
                 inserted |-> w2.rows # w1.rows,
                 queried |-> FALSE,
                 counted |-> w2.threw = "none" /\ CountOf(w2) >= 1]]

Null(w, t) == [kind |-> "null", w |-> [w EXCEPT !.loaded = FALSE, !.dim = 0], test |-> t]

VecTryLoad(w, e) ==
  IF e.manualExists /\ e.manualLoadOk
  THEN LET r == VecSelfTest(w, e)
       IN  IF r.w.loaded THEN [kind |-> "vec", w |-> r.w, test |-> r.test]
           ELSE Null(r.w, r.test)
  ELSE IF e.npmExists /\ e.npmLoadOk
  THEN LET r == VecSelfTest(w, e)
       IN  IF r.w.loaded THEN [kind |-> "vec", w |-> r.w, test |-> r.test]
           ELSE Null(r.w, r.test)
  ELSE Null(w, NoSelfTest)

VssTryLoad(plat, w, e) ==
  IF plat # "win32" /\ ~(e.vectorExists /\ e.vectorLoadOk) THEN Null(w, NoSelfTest)
  ELSE IF e.vssExists /\ e.vssLoadOk
       THEN [kind |-> "vss", w |-> [w EXCEPT !.loaded = TRUE], test |-> NoSelfTest]
       ELSE Null(w, NoSelfTest)

UnifiedSelect(plat, w, e) ==
  IF plat = "win32" THEN VecTryLoad(w, e)
  ELSE LET s == VssTryLoad(plat, w, e)
       IN  IF s.kind # "null" THEN s ELSE VecTryLoad(w, e)

SqliteVecLoad(w, e) ==
  IF e.npmLoadOk THEN [w EXCEPT !.loaded = TRUE]
  ELSE IF e.vssExists /\ e.vssLoadOk THEN [w EXCEPT !.loaded = TRUE]
  ELSE [w EXCEPT !.loaded = FALSE]

\* UnifiedVectorBackend.isAvailable / getBackendType
IsAvailable == IF active = "null" THEN FALSE ELSE loaded

GetBackendType ==
  CASE active = "null" -> "local-js"
    [] active = "vec" -> "vec"
    [] active = "vss" -> "vss"
    [] active = "sqlitevec" -> "sqlitevec"

(***************************************************************************)
(* Actions of the vector backends                                          *)
(***************************************************************************)
SetWorld(w) ==
  /\ loaded' = w.loaded
  /\ dim' = w.dim
  /\ items' = w.items
  /\ rows' = w.rows
  /\ tableDim' = w.tableDim
  /\ orig' = w.orig

\* UnifiedVectorBackend.tryLoad
UnifiedTryLoad ==
  /\ pc = "start"
  /\ \E plat \in {"win32", "linux"}, e \in Envs :
       LET r == UnifiedSelect(plat, World, e)
       IN  /\ platform' = plat
           /\ active' = r.kind
           /\ SetWorld(r.w)
           /\ selfTest' = r.test
           /\ last' = [op |-> "tryLoad", threw |-> "none"]
  /\ pc' = "ready"
  /\ UNCHANGED <<idxVars, srchVars, chkVars, astVars, ctxVars, cmdVars>>

\* SqliteVec.tryLoad
SqliteVecTryLoad ==
  /\ pc = "start"
  /\ \E plat \in {"win32", "linux"}, e \in Envs :
       /\ platform' = plat
       /\ active' = "sqlitevec"
       /\ SetWorld(SqliteVecLoad(World, e))
       /\ selfTest' = NoSelfTest
       /\ last' = [op |-> "tryLoad", threw |-> "none"]
  /\ pc' = "ready"
  /\ UNCHANGED <<idxVars, srchVars, chkVars, astVars, ctxVars, cmdVars>>

DoEnsureTable(w, d, createOk) ==
  CASE active = "null" -> w
    [] active = "vec" -> VecEnsureTable(w, d, createOk)
    [] active = "vss" -> VssEnsureTable(w, d, createOk)
    [] active = "sqlitevec" -> SqliteVecEnsureTable(w, d, createOk)

DoUpsert(w, id, v, ins) ==
  CASE active = "null" -> w
    [] active = "vec" -> VecUpsert(w, id, v, ins)
    [] active = "vss" -> VssUpsert(w, id, v, ins)
    [] active = "sqlitevec" -> SqliteVecUpsert(w, id, v, ins)

DoQueryNearest(w, q, topk, qok) ==
  CASE active = "null" -> {[result |-> <<>>, rowids |-> <<>>]}
    [] active = "vec" -> VecQueryNearest(w, q, topk, qok)
    [] active = "vss" -> VssQueryNearest(w, q, topk, qok)
    [] active = "sqlitevec" -> SqliteVecQueryNearest(w, q, topk, qok)

DoCount(w) == IF active = "null" THEN 0 ELSE CountOf(w)

EnsureTable ==
  /\ pc = "ready"
  /\ \E d \in VecLens, createOk \in BOOLEAN :
       LET w == DoEnsureTable(World, d, createOk)
       IN  /\ SetWorld(w)
           /\ last' = [op |-> "ensureTable", arg |-> d, dimBefore |-> dim,
                       loadedBefore |-> loaded, tableDimBefore |-> tableDim,
                       threw |-> w.threw]
  /\ UNCHANGED <<pc, platform, active, selfTest, idxVars, srchVars, chkVars, astVars, ctxVars, cmdVars>>

Upsert ==
  /\ pc = "ready"
  /\ \E id \in ExtIds, v \in Vectors :
       \E ins \in InsertOutcomes(World, v) :
         LET w == DoUpsert(World, id, v, ins)
         IN  /\ Cardinality(w.items) <= MaxItems
             /\ SetWorld(w)
             /\ last' = [op |-> "upsert", id |-> id, vlen |-> v.len,
                         dimBefore |-> dim, loadedBefore |-> loaded,
                         countBefore |-> DoCount(World),
                         countAfter |-> DoCount(w),
                         ins |-> ins, threw |-> w.threw]
  /\ UNCHANGED <<pc, platform, active, selfTest, idxVars, srchVars, chkVars, astVars, ctxVars, cmdVars>>

QueryNearest ==
  /\ pc = "ready"
  /\ \E q \in Vectors, topk \in 1..MaxTopK, qok \in BOOLEAN :
       \E r \in DoQueryNearest(World, q, topk, qok) :
         last' = [op |-> "queryNearest", qlen |-> q.len, topk |-> topk,
                  dimBefore |-> dim, loadedBefore |-> loaded,
                  result |-> r.result, rowids |-> r.rowids, threw |-> "none"]
  /\ UNCHANGED <<pc, platform, active, loaded, dim, items, rows, tableDim, orig,
                 selfTest, idxVars, srchVars, chkVars, astVars, ctxVars, cmdVars>>

Count ==
  /\ pc = "ready"
  /\ last' = [op |-> "count", result |-> DoCount(World), threw |-> "none"]
  /\ UNCHANGED <<pc, platform, active, loaded, dim, items, rows, tableDim, orig,
                 selfTest, idxVars, srchVars, chkVars, astVars, ctxVars, cmdVars>>

VecInit ==
  /\ pc = "start"
  /\ platform = "linux"
  /\ active = "null"
  /\ loaded = FALSE
  /\ dim = 0
  /\ items = {}
  /\ rows = <<>>
  /\ tableDim = 0
  /\ orig = <<>>
  /\ selfTest = NoSelfTest
  /\ last = NoCall

IdxIdle ==
  /\ codeFiles = {}
  /\ codeSymbols = {}
  /\ codeEmb = <<>>
  /\ codeFts = <<>>
  /\ lastIdx = NoCall

SrchIdle ==
  /\ index = {}
  /\ res = <<>>
  /\ srch = NoCall

ChkIdle ==
  /\ initialized = FALSE
  /\ treeSitterAvailable = FALSE
  /\ files = {}
  /\ chunkObs = NoCall

AstIdle ==
  /\ ast = NoCall
  /\ astObs = NoCall

CtxIdle ==
  /\ memories = <<>>
  /\ bundle = [present |-> {}]
  /\ ctxObs = NoCall

CmdIdle ==
  /\ receipts = <<>>
  /\ journal = <<>>
  /\ cmdObs = NoCall

InitVec == VecInit /\ IdxIdle /\ SrchIdle /\ ChkIdle /\ AstIdle /\ CtxIdle /\ CmdIdle

NextVec ==
  \/ UnifiedTryLoad
  \/ SqliteVecTryLoad
  \/ EnsureTable
  \/ Upsert
  \/ QueryNearest
  \/ Count

SpecVec == InitVec /\ [][NextVec]_vars

(***************************************************************************)
(* Claims about the vector backends (checked under SpecVec)                *)
(***************************************************************************)

\* C1: on a backend whose dimension d is established, upsert(id, v) with
\* len(v) # d raises a dimension-mismatch error to the caller and writes
\* nothing: count() after the call equals count() before it.
C1_MismatchedUpsertFails ==
  (last.op = "upsert" /\ last.dimBefore # 0 /\ last.vlen # last.dimBefore)
    => (last.threw = "dimension" /\ last.countAfter = last.countBefore)

\* C3: in the key-mapped backend (VecBackend) every external id has one
\* internal id that never changes, distinct external ids have distinct
\* internal ids, and queryNearest returns for every hit the external id the
\* caller upserted it under, not the internal rowid.
C3_MappingInv ==
  active = "vec" =>
    /\ \A r1, r2 \in items : (r1.key = r2.key) <=> (r1.id = r2.id)
    /\ \A k \in DOMAIN orig :
         \E r \in items : r.id = k /\ r.key = KeyOf(orig[k])
    /\ last.op = "queryNearest" =>
         \A i \in DOMAIN last.result : last.result[i].id = orig[last.rowids[i]]

C3_KeyMappingStable ==
  /\ []C3_MappingInv
  /\ [][active = "vec" => \A r \in items : r \in items']_vars

C3_Witness ==
  /\ active = "vec"
  /\ last.op = "queryNearest"
  /\ Len(last.result) = 2
  /\ \A i \in DOMAIN last.result : last.result[i].id # last.rowids[i]
  /\ \E r \in items : r.id > 1 /\ r.id \in DOMAIN rows

\* C5: backend selection never throws; when no native backend passes, the
\* selected backend is the local-js fallback, which is available and serves
\* upsert, queryNearest and count.
C5_FallbackAvailable ==
  /\ last.op = "tryLoad" => last.threw = "none"
  /\ (pc = "ready" /\ active = "null") =>
       /\ GetBackendType = "local-js"
       /\ IsAvailable
       /\ (last.op = "upsert" /\ last.id >= 0) => last.countAfter >= 1

\* C6: isAvailable() is true only if the extension loaded and the load-time
\* self-test (create table, insert sentinel, query it back, count increased)
\* passed; a backend whose self-test did not pass is never the active one.
SelfTestPassed ==
  /\ selfTest.ran
  /\ selfTest.created
  /\ selfTest.inserted
  /\ selfTest.queried
  /\ selfTest.counted

C6_AvailableOnlyAfterSelfTest ==
  /\ (active \in {"vec", "vss"} /\ IsAvailable) => SelfTestPassed
  /\ active \in {"vec", "vss"} => SelfTestPassed

\* C7: once a dimension d1 is established, ensureTable(d1) and ensureTable(d2)
\* with d2 # d1 both leave the backend as it was; the dimension stays d1.
C7_EnsureTableNoOp ==
  (last.op = "ensureTable" /\ last.dimBefore # 0) =>
    /\ dim = last.dimBefore
    /\ loaded = last.loadedBefore
    /\ tableDim = last.tableDimBefore

\* the last call was an upsert of a wrongly sized vector on an available
\* backend with an established dimension
MismatchedUpsert ==
  /\ last.op = "upsert"
  /\ last.loadedBefore
  /\ last.dimBefore # 0
  /\ last.vlen # last.dimBefore

\* C17: a dimension-mismatched upsert is fatal for that call only: the
\* backend stays available, and a following upsert of a correctly sized
\* vector (which the native insert accepts) succeeds and is counted.
C17_FailedUpsertNotFatal ==
  /\ [](MismatchedUpsert => loaded = last.loadedBefore)
  /\ [][(/\ MismatchedUpsert
         /\ last'.op = "upsert"
         /\ last'.vlen = last'.dimBefore
         /\ last'.id >= 0
         /\ last'.ins = "ok")
        => /\ last'.threw = "none"
           /\ last'.countAfter >= 1
           /\ \E k \in DOMAIN rows' : orig'[k] = last'.id]_vars

\* C18: queryNearest(v, k) on a backend with established dimension d and
\* len(v) # d raises a dimension error; it returns no result list.
C18_MismatchedQueryRaises ==
  (/\ last.op = "queryNearest"
   /\ last.loadedBefore
   /\ last.dimBefore # 0
   /\ last.qlen # last.dimBefore)
    => last.threw = "dimension"

\* C19: once backend selection has finished the sentinel vector is not
\* stored, count() is what it was before the self-test, and no later
\* queryNearest returns the sentinel id.
C19_SelfTestLeavesNothing ==
  /\ pc = "ready" => ~\E k \in DOMAIN rows : orig[k] = SentinelId
  /\ last.op = "tryLoad" => DoCount(World) = CountOf(EmptyWorld)
  /\ last.op = "queryNearest" =>
       \A i \in DOMAIN last.result : last.result[i].id # SentinelId

\* C28: in every state of UnifiedVectorBackend reached by ensureTable, upsert
\* and queryNearest calls (failing ones included), getBackendType() is
\* 'local-js' if and only if isAvailable() is false.
C28_LocalJsIffUnavailable ==
  (pc = "ready" /\ active # "sqlitevec") =>
    ((GetBackendType = "local-js") <=> ~IsAvailable)

(***************************************************************************)
(* HybridSearchDatabase.indexFile                                          *)
(***************************************************************************)
\* The path offered to indexFile; "b.ts" is a file indexed beforehand.
Paths == {"a.ts"}

Contents == {"c1", "c2"}

\* The symbols a caller can pass: kind, name and start_byte identify a symbol
\* of a file (UNIQUE(file_id, name, kind, start_byte)); emb says whether an
\* embedding comes with it.
SymbolInputs ==
  [kind : {"function"}, name : {"f", "g"}, start_byte : {0},
   end_byte : {5}, emb : BOOLEAN]

SymbolLists ==
  UNION {[1..n -> SymbolInputs] : n \in 0..MaxSyms}

\* crypto.createHash('sha256').update(content).digest('hex')
Sha256(content) == <<"sha256", content>>

NextRowId(tbl) ==
  IF tbl = {} THEN 1
  ELSE 1 + CHOOSE m \in {r.id : r \in tbl} : \A r \in tbl : r.id <= m

\* upsertFile: INSERT ... ON CONFLICT(path) DO UPDATE SET sha256 ... RETURNING id
UpsertFile(fs, path, sha) ==
  IF \E r \in fs : r.path = path
  THEN LET old == CHOOSE r \in fs : r.path = path
       IN  [files |-> (fs \ {old}) \cup {[old EXCEPT !.sha256 = sha]},
            id |-> old.id]
  ELSE [files |-> fs \cup {[id |-> NextRowId(fs), path |-> path, sha256 |-> sha]},
        id |-> NextRowId(fs)]

SameSymbol(r, fileId, sym) ==
  /\ r.file_id = fileId
  /\ r.name = sym.name
  /\ r.kind = sym.kind
  /\ r.start_byte = sym.start_byte

\* upsertSymbol: INSERT ... ON CONFLICT(file_id, name, kind, start_byte)
\* DO UPDATE SET end_byte ... RETURNING id
UpsertSymbol(tbl, fileId, sym) ==
  IF \E r \in tbl : SameSymbol(r, fileId, sym)
  THEN LET old == CHOOSE r \in tbl : SameSymbol(r, fileId, sym)
       IN  [symbols |-> (tbl \ {old}) \cup {[old EXCEPT !.end_byte = sym.end_byte]},
            id |-> old.id]
  ELSE [symbols |-> tbl \cup {[id |-> NextRowId(tbl), file_id |-> fileId,
                               kind |-> sym.kind, name |-> sym.name,
                               start_byte |-> sym.start_byte,
                               end_byte |-> sym.end_byte]},
        id |-> NextRowId(tbl)]

\* content.slice(start_byte, Math.min(end_byte, start_byte + 2000))
BodySlice(content, sym) ==
  [of |-> content, from |-> sym.start_byte,
   to |-> Min(sym.end_byte, sym.start_byte + 2000)]

\* The loop body of indexFile for one symbol.
IndexSymbol(db, fileId, content, sym) ==
  LET u == UpsertSymbol(db.symbols, fileId, sym)
  IN  [db EXCEPT
         !.symbols = u.symbols,
         !.emb = IF sym.emb THEN Put(db.emb, u.id, sym.name) ELSE db.emb,
         !.fts = Put(db.fts, u.id, [name |-> sym.name,
                                    body |-> BodySlice(content, sym)]),
         !.count = db.count + 1]

RECURSIVE IndexSymbols(_, _, _, _, _)
IndexSymbols(db, fileId, content, syms, i) ==
  IF i > Len(syms) THEN db
  ELSE IndexSymbols(IndexSymbol(db, fileId, content, syms[i]),
                    fileId, content, syms, i + 1)

Db == [files |-> codeFiles, symbols |-> codeSymbols, emb |-> codeEmb,
       fts |-> codeFts, count |-> 0]

\* The body of the transaction of indexFile.
IndexFileTxn(db, path, content, syms) ==
  LET f == UpsertFile(db.files, path, Sha256(content))
  IN  IndexSymbols([db EXCEPT !.files = f.files], f.id, content, syms, 1)

\* The identity of a symbol within its file.
SymbolKey(s) == [kind |-> s.kind, name |-> s.name, start_byte |-> s.start_byte]

\* indexFile: the transaction commits as a whole, or a statement throws, the
\* transaction is rolled back and the error reaches the caller.  The stored
\* digest is never read: every call runs the transaction and returns the
\* symbol count, so no call is reported as skipped.
IndexFile ==
  /\ \E path \in Paths, content \in Contents, syms \in SymbolLists,
        stmtOk \in BOOLEAN :
       LET db == IF stmtOk THEN IndexFileTxn(Db, path, content, syms) ELSE Db
       IN  /\ codeFiles' = db.files
           /\ codeSymbols' = db.symbols
           /\ codeEmb' = db.emb
           /\ codeFts' = db.fts
           /\ lastIdx' = [op |-> "indexFile", path |-> path,
                          passed |-> {SymbolKey(syms[i]) : i \in DOMAIN syms},
                          threw |-> ~stmtOk, returned |-> db.count,
                          wrote |-> db # Db,
                          sameDigest |-> \E f \in codeFiles :
                             f.path = path /\ f.sha256 = Sha256(content),
                          skipped |-> FALSE]
  /\ UNCHANGED <<vecVars, srchVars, chkVars, astVars, ctxVars, cmdVars>>

\* getStats
GetStats ==
  /\ lastIdx' = [op |-> "getStats", files |-> Cardinality(codeFiles),
                 symbols |-> Cardinality(codeSymbols),
                 embeddings |-> Cardinality(DOMAIN codeEmb),
                 fts_entries |-> Cardinality(DOMAIN codeFts)]
  /\ UNCHANGED <<codeFiles, codeSymbols, codeEmb, codeFts, vecVars, srchVars, chkVars, astVars, ctxVars, cmdVars>>

VecIdle ==
  /\ pc = "start"
  /\ platform = "linux"
  /\ active = "null"
  /\ loaded = FALSE
  /\ dim = 0
  /\ items = {}
  /\ rows = <<>>
  /\ tableDim = 0
  /\ orig = <<>>
  /\ selfTest = NoSelfTest
  /\ last = NoCall

\* The database holds file b.ts with one symbol before a.ts is indexed.
IdxInit ==
  /\ codeFiles = {[id |-> 1, path |-> "b.ts", sha256 |-> Sha256("c1")]}
  /\ codeSymbols = {[id |-> 1, file_id |-> 1, kind |-> "function", name |-> "f",
                     start_byte |-> 0, end_byte |-> 5]}
  /\ codeEmb = <<>>
  /\ codeFts = <<[name |-> "f", body |-> [of |-> "c1", from |-> 0, to |-> 5]]>>
  /\ lastIdx = NoCall

InitIdx == VecIdle /\ IdxInit /\ SrchIdle /\ ChkIdle /\ AstIdle /\ CtxIdle /\ CmdIdle

NextIdx ==
  \/ IndexFile
  \/ GetStats

SpecIdx == InitIdx /\ [][NextIdx]_vars

\* The symbols stored for a path, by their identity.
StoredFor(path) ==
  {SymbolKey(r) : r \in {x \in codeSymbols :
     \E f \in codeFiles : f.path = path /\ f.id = x.file_id}}

\* C2: after indexFile(path, content, symbols) returns, the symbols stored for
\* path are exactly the symbols passed (symbols of an earlier indexFile that
\* are not in the new list are gone), and a call that fails stores nothing.
C2_IndexFileReplaces ==
  lastIdx.op = "indexFile" =>
    IF lastIdx.threw
    THEN ~lastIdx.wrote
    ELSE StoredFor(lastIdx.path) = lastIdx.passed

\* C20: indexing a file whose stored digest equals the digest of the content
\* passed is skipped: the call reports Skipped and the stored files, symbols
\* and embeddings are what they were before it.
C20_UnchangedFileSkipped ==
  (lastIdx.op = "indexFile" /\ lastIdx.sameDigest /\ ~lastIdx.threw) =>
    (lastIdx.skipped /\ ~lastIdx.wrote)

(***************************************************************************)
(* Search: scores are exact fractions <<numerator, denominator>>           *)
(***************************************************************************)
FZero == <<0, 1>>

FOne == <<1, 1>>

FAdd(a, b) == <<a[1] * b[2] + b[1] * a[2], a[2] * b[2]>>

FMul(a, b) == <<a[1] * b[1], a[2] * b[2]>>

FEq(a, b) == a[1] * b[2] = b[1] * a[2]

FLess(a, b) == a[1] * b[2] < b[1] * a[2]

FMax(a, b) == IF FLess(a, b) THEN b ELSE a

\* 1.0/(1.0 + x)
Normalize(x) == <<1, 1 + x>>

\* alpha * vec + (1 - alpha) * text
Fuse(alpha, vec, text) ==
  FAdd(FMul(alpha, vec), FMul(<<alpha[2] - alpha[1], alpha[2]>>, text))

\* A signal a symbol does not have: no lexical match / no embedding.
NoSignal == 0 - 1

\* Raw lexical ranks (lower is better) and vector distances of the symbols
\* for the query at hand.
RawRanks == {0, 1}

Distances == {0, 1}

\* alpha values offered to hybridSearch: lexical-only and the even blend.
Alphas == {<<0, 1>>, <<1, 2>>}

DefaultLimitMultiplier == 8

DefaultRerankN == 200

MissingDistance == 999

Kinds == {"function", "class"}

KindOf(id) == IF id % 2 = 1 THEN "function" ELSE "class"

NameOf(id) == IF id % 2 = 1 THEN "calcTotal" ELSE "Cart"

\* new RegExp(s, 'i').test(symbolName) for the patterns offered
PatternMatches(p, name) ==
  \/ p = "calc" /\ name = "calcTotal"
  \/ p = "cart" /\ name = "Cart"

Indexes == [1..NumSymbols -> [lex : RawRanks \cup {NoSignal},
                              dist : Distances \cup {NoSignal}]]

SymbolIds == DOMAIN index

\* code_symbols_fts MATCH ?: the symbols the query matches, with bm25
TextMatches == {[id |-> i, bm25_raw |-> index[i].lex] :
                  i \in {x \in SymbolIds : index[x].lex # NoSignal}}

\* the rows of code_symbols_embedding with their distance to the query
VecMatches == {[id |-> i, distance |-> index[i].dist] :
                 i \in {x \in SymbolIds : index[x].dist # NoSignal}}

OrderByRank(hits) ==
  {s \in Perms(hits) :
     \A i, j \in DOMAIN s : i < j => s[i].bm25_raw <= s[j].bm25_raw}

\* Mutation: ORDER BY hybrid_score ascending.
OrderByHybridDesc_Asc(rws) ==
  {s \in Perms(rws) :
     \A i, j \in DOMAIN s : i < j => ~FLess(s[j].hybrid_score, s[i].hybrid_score)}

\* ORDER BY hybrid_score DESC (the order of equal scores is left open)
OrderByHybridDesc(rws) ==
  {s \in Perms(rws) :
     \A i, j \in DOMAIN s : i < j => ~FLess(s[i].hybrid_score, s[j].hybrid_score)}

Range(s) == {s[i] : i \in DOMAIN s}

\* The CTEs text_hits/text_norm, vec_hits/vec_norm and joined of
\* hybridSearchStmt, for one choice of the limited hit lists.
Joined(textHits, vecHits, alpha, filterKind) ==
  {[id |-> i, kind |-> KindOf(i),
    text_score |-> IF \E t \in textHits : t.id = i
                   THEN Normalize((CHOOSE t \in textHits : t.id = i).bm25_raw)
                   ELSE FZero,
    vec_score |-> IF \E v \in vecHits : v.id = i
                  THEN Normalize((CHOOSE v \in vecHits : v.id = i).distance)
                  ELSE FZero,
    hybrid_score |->
      Fuse(alpha,
           IF \E v \in vecHits : v.id = i
           THEN Normalize((CHOOSE v \in vecHits : v.id = i).distance)
           ELSE FZero,
           IF \E t \in textHits : t.id = i
           THEN Normalize((CHOOSE t \in textHits : t.id = i).bm25_raw)
           ELSE FZero)] :
     i \in {x \in SymbolIds : filterKind = "null" \/ KindOf(x) = filterKind}}

\* text_hits / vec_hits: the hits that survive ORDER BY ... LIMIT limitX
\* (a set of candidate hit sets, since ties at the cut are left open)
LimitedHits(orders, limitX) == {Range(Take(s, limitX)) : s \in orders}

\* The possible results of running hybridSearchStmt.
HybridSearchStmt(limitX, alpha, filterKind, topK) ==
  UNION {UNION {{Take(s, topK) :
                   s \in OrderByHybridDesc(Joined(th, vh, alpha, filterKind))} :
                vh \in LimitedHits(OrderByDistance(VecMatches), limitX)} :
         th \in LimitedHits(OrderByRank(TextMatches), limitX)}

\* The possible results of textOnlySearch's statement.
TextOnlyRows(filterKind) ==
  {[id |-> t.id, kind |-> KindOf(t.id),
    text_score |-> Normalize(t.bm25_raw),
    vec_score |-> FZero,
    hybrid_score |-> Normalize(t.bm25_raw)] :
     t \in {x \in TextMatches : filterKind = "null" \/ KindOf(x.id) = filterKind}}

TextOnlySearch(filterKind, topK, qerr) ==
  IF qerr THEN {<<>>}
  ELSE {Take(s, topK) : s \in OrderByHybridDesc(TextOnlyRows(filterKind))}

\* The kind filters and symbol-name patterns the searches are called with.
FilterKinds == {"function", "null"}

FilterPatterns == {"calc", "none"}

\* How the statement of a hybridSearch call ends: it returns rows, its vector
\* part raises an error, or the sanitized query is not valid FTS5 syntax.
StmtOutcomes == {"ok", "vecError", "queryError"}

\* A query is a string over: "w" a word character, " " white space, "*" one
\* of the characters sanitizeQuery strips (quotes, * ^ ~), "(" an FTS5
\* operator character it leaves in place.
MaxQueryLen == 2

QueryChars == {"w", " ", "*", "("}

Queries == UNION {[1..n -> QueryChars] : n \in 1..MaxQueryLen}

\* query.replace(/["'`]/g, ' ').replace(/[*^~]/g, ' ')
StripOperators(q) == [i \in DOMAIN q |-> IF q[i] = "*" THEN " " ELSE q[i]]

\* .replace(/\s+/g, ' ').trim()
RECURSIVE CollapseWhitespace(_)
CollapseWhitespace(q) ==
  IF q = <<>> THEN <<>>
  ELSE LET rest == CollapseWhitespace(Tail(q))
       IN  IF Head(q) = " "
           THEN IF rest = <<>> \/ Head(rest) = " " THEN rest ELSE <<" ">> \o rest
           ELSE <<Head(q)>> \o rest

Trim(q) == IF q # <<>> /\ Head(q) = " " THEN Tail(q) ELSE q

\* sanitized.split(' ').join(' AND ')
JoinWithAnd(q) == [i \in DOMAIN q |-> IF q[i] = " " THEN " AND " ELSE q[i]]

\* HybridSearchDatabase.sanitizeQuery
SanitizeQuery(q) == JoinWithAnd(Trim(CollapseWhitespace(StripOperators(q))))

\* FTS5 rejects an empty MATCH expression and an unbalanced parenthesis.
Fts5Accepts(q) == q # <<>> /\ \A i \in DOMAIN q : q[i] # "("

\* HybridSearchDatabase.hybridSearch.  The statement runs on the sanitized
\* query; when it raises, textOnlySearch runs on the same sanitized query and
\* answers [] when that raises too.
HybridSearch ==
  /\ \E accepted \in {Fts5Accepts(SanitizeQuery(q)) : q \in Queries} :
     \E topK \in 1..MaxTopK, filterKind \in FilterKinds,
        outcome \in {o \in StmtOutcomes : (o = "queryError") = ~accepted} :
       LET limitX == topK * DefaultLimitMultiplier
           obs == [op |-> "hybridSearch", topK |-> topK, alpha |-> FZero,
                   filter |-> filterKind, vecFailed |-> outcome = "vecError",
                   lexFailed |-> outcome = "queryError", fused |-> FALSE,
                   completed |-> TRUE, attempts |-> 2, threw |-> FALSE,
                   reported |-> "none"]
       IN  IF outcome = "ok"
           THEN \E alpha \in Alphas :
                  /\ res' \in HybridSearchStmt(limitX, alpha, filterKind, topK)
                  /\ srch' = [obs EXCEPT !.alpha = alpha, !.fused = TRUE,
                                         !.attempts = 1]
           ELSE /\ res' \in TextOnlySearch(filterKind, topK, outcome = "queryError")
                /\ srch' = obs
  /\ UNCHANGED <<index, vecVars, idxVars, chkVars, astVars, ctxVars, cmdVars>>

(***************************************************************************)
(* The search-code command (handleSearchCode).  Its result rows carry the  *)
(* fused `relevance` in hybrid_score.                                      *)
(***************************************************************************)
\* database.searchMemories(query, {limit, type: 'code'}): the lexical matches
\* in lexical rank order with their relevance, at most limit of them.
SearchMemories(limit) ==
  {Take([i \in DOMAIN s |->
           [id |-> s[i].id, kind |-> KindOf(s[i].id),
            text_score |-> Normalize(s[i].bm25_raw),
            vec_score |-> FZero,
            hybrid_score |-> Normalize(s[i].bm25_raw)]], limit) :
     s \in OrderByRank(TextMatches)}

\* database.knnSearch(queryVec, k): the k nearest stored vectors.
KnnSearch(k) == {Take(s, k) : s \in OrderByDistance(VecMatches)}

\* vssMap: id -> distance of the KNN hits
VssMap(knn) ==
  [id \in {knn[i].id : i \in DOMAIN knn} |->
     knn[CHOOSE i \in DOMAIN knn : knn[i].id = id].distance]

\* vssMap.get(r.id) || 999
VDistance(vssMap, id) ==
  IF id \in DOMAIN vssMap /\ vssMap[id] # 0 THEN vssMap[id] ELSE MissingDistance

\* results.map(r => ...): fusedScore = 0.5 * bm25Score + 0.5 * cosineSim
Scored(results, vssMap) ==
  [i \in DOMAIN results |->
     LET cosineSim == FMax(FZero, Normalize(VDistance(vssMap, results[i].id)))
         bm25Score == results[i].hybrid_score
     IN  [results[i] EXCEPT !.text_score = bm25Score,
                            !.vec_score = cosineSim,
                            !.hybrid_score = Fuse(<<1, 2>>, cosineSim, bm25Score)]]

Front(s) == SubSeq(s, 1, Len(s) - 1)

RECURSIVE InsertDesc(_, _)
InsertDesc(s, x) ==
  IF s = <<>> THEN <<x>>
  ELSE IF FLess(s[Len(s)].hybrid_score, x.hybrid_score)
       THEN Append(InsertDesc(Front(s), x), s[Len(s)])
       ELSE Append(s, x)

\* scored.sort((a, b) => b.relevance - a.relevance): a stable sort
RECURSIVE StableSortDesc(_)
StableSortDesc(s) ==
  IF s = <<>> THEN <<>>
  ELSE InsertDesc(StableSortDesc(Front(s)), s[Len(s)])

\* results.filter(r => symbolPatterns.some(p => p.test(meta.symbolName)))
FilterSymbols(results, filterSym) ==
  IF filterSym = "none" THEN results
  ELSE SelectSeq(results, LAMBDA r : PatternMatches(filterSym, NameOf(r.id)))

\* How a search-code run goes: --dry-run; the database raises an error;
\* plain FTS; hybrid with the embedding provider failing; hybrid with
\* knnSearch rejecting; hybrid with knnSearch answering.  The receipt of a
\* hybrid run always names backend 'fallback'; a plain run names no backend.
SearchModes == {"dryRun", "dbError", "fts", "noEmbedding", "knnRejected", "hybrid"}

SearchCode ==
  /\ \E topk \in 1..MaxTopK, mode \in SearchModes, filterSym \in FilterPatterns :
       LET hybrid == mode \in {"noEmbedding", "knnRejected", "hybrid"}
           ran == mode \notin {"dryRun", "dbError"}
           obs == [op |-> "searchCode", topK |-> topk, alpha |-> FZero,
                   filter |-> filterSym, vecFailed |-> ran /\ hybrid,
                   lexFailed |-> mode = "dbError", fused |-> FALSE,
                   completed |-> ran,
                   attempts |-> IF mode = "dryRun" THEN 0 ELSE 1,
                   threw |-> FALSE,
                   reported |-> IF ran /\ hybrid THEN "fallback" ELSE "none",
                   \* the dry-run branch, the normal end and the catch block
                   \* each call tracer.writeReceipt and tracer.appendJournal
                   receipt |-> TRUE, journaled |-> TRUE]
       IN  IF ~ran
           THEN res' = <<>> /\ srch' = obs
           ELSE \E results \in SearchMemories(IF hybrid THEN DefaultRerankN ELSE topk),
                   vssMap \in {VssMap(knn) :
                                knn \in (IF mode = "hybrid"
                                         THEN KnnSearch(DefaultRerankN)
                                         ELSE {<<>>})} :
                  LET take == Min(topk, Len(results))
                      rerank == DOMAIN vssMap # {}
                      ranked == IF ~hybrid THEN results
                                ELSE IF rerank
                                     THEN Take(StableSortDesc(Scored(results, vssMap)), take)
                                     ELSE Take(results, take)
                  IN  /\ res' = FilterSymbols(ranked, filterSym)
                      /\ srch' = IF rerank
                                 THEN [obs EXCEPT !.alpha = <<1, 2>>,
                                                  !.vecFailed = FALSE,
                                                  !.fused = TRUE]
                                 ELSE obs
  /\ UNCHANGED <<index, vecVars, idxVars, chkVars, astVars, ctxVars, cmdVars>>

SrchInit ==
  /\ index \in Indexes
  /\ res = <<>>
  /\ srch = NoCall

InitSearch == VecIdle /\ IdxIdle /\ SrchInit /\ ChkIdle /\ AstIdle /\ CtxIdle /\ CmdIdle

NextSearch ==
  \/ HybridSearch
  \/ SearchCode

SpecSearch == InitSearch /\ [][NextSearch]_vars

(***************************************************************************)
(* Claims about search (checked under SpecSearch)                          *)
(***************************************************************************)
Searched == srch.op \in {"hybridSearch", "searchCode"}

NoFilter == srch.filter \in {"null", "none"}

\* The lexical and vector signal of a symbol in the last search, 0 if absent.
LexSignal(id) ==
  IF index[id].lex # NoSignal THEN Normalize(index[id].lex) ELSE FZero

VecSignal(id) ==
  IF srch.fused /\ index[id].dist # NoSignal
  THEN Normalize(index[id].dist) ELSE FZero

ResultIds == {res[i].id : i \in DOMAIN res}

C8_FusionFormula ==
  Searched =>
    \A i \in DOMAIN res :
      /\ FEq(res[i].hybrid_score,
             Fuse(srch.alpha, VecSignal(res[i].id), LexSignal(res[i].id)))
      /\ FEq(res[i].hybrid_score, FZero) =>
           (FEq(LexSignal(res[i].id), FZero) /\ FEq(VecSignal(res[i].id), FZero))

\* C9: with a chunk A that matches lexically and has no embedding and a
\* chunk B that is near the query embedding and has no lexical match, a
\* search with alpha = 0.5 returns both, one with alpha = 0 returns A only.
IsA(id) == index[id].lex # NoSignal /\ index[id].dist = NoSignal

IsB(id) == index[id].lex = NoSignal /\ index[id].dist # NoSignal

\* the search ran with a working vector stage, unfiltered, and topK large
\* enough to hold every symbol
FullHybridSearch(alpha) ==
  \/ /\ srch.op = "hybridSearch"
     /\ srch.fused
     /\ srch.alpha = alpha
     /\ NoFilter
     /\ srch.topK >= NumSymbols
  \/ /\ srch.op = "searchCode"
     /\ srch.fused
     /\ srch.alpha = alpha
     /\ NoFilter
     /\ srch.topK >= NumSymbols

C9_SearchScenario ==
  \A a, b \in SymbolIds :
    (IsA(a) /\ IsB(b)) =>
      /\ FullHybridSearch(<<1, 2>>) => (a \in ResultIds /\ b \in ResultIds)
      /\ FullHybridSearch(<<0, 1>>) => (a \in ResultIds /\ b \notin ResultIds)

\* whether a symbol passes the filter of the last search
SatisfiesFilter(id) ==
  IF srch.op = "hybridSearch" THEN KindOf(id) = srch.filter
  ELSE PatternMatches(srch.filter, NameOf(id))

\* the candidates of the last search: the symbols with a signal in a fused
\* hybridSearch, the lexical matches otherwise
Candidates ==
  IF srch.op = "hybridSearch" /\ srch.fused
  THEN {i \in SymbolIds : index[i].lex # NoSignal \/ index[i].dist # NoSignal}
  ELSE {i \in SymbolIds : index[i].lex # NoSignal}

\* C13: the filter is applied before truncation to topK: every result
\* satisfies the filter, and when at least topK candidates satisfy it,
\* exactly topK results are returned.
C13_FilterBeforeTopK ==
  (Searched /\ srch.completed /\ ~srch.lexFailed /\ ~NoFilter) =>
    /\ \A i \in DOMAIN res : SatisfiesFilter(res[i].id)
    /\ Cardinality({c \in Candidates : SatisfiesFilter(c)}) >= srch.topK
         => Len(res) = srch.topK

\* C14: every completed search reports the mode that served it: a search
\* re-ranked with vector scores reports hybrid, one that degraded to
\* lexical-only reports fallback.
C14_ReportedModeIsActualMode ==
  (Searched /\ srch.completed) =>
    /\ srch.reported \in {"hybrid", "fallback"}
    /\ srch.fused => srch.reported = "hybrid"
    /\ ~srch.fused => srch.reported = "fallback"

\* C15: when the lexical query fails on its syntax the engine retries once
\* with the sanitized query, and when the retry fails too it surfaces an
\* error instead of returning an empty list.
C15_SyntaxErrorSurfaced ==
  (srch.op = "hybridSearch" /\ srch.lexFailed) =>
    /\ srch.attempts = 2
    /\ srch.threw

\* the position of a symbol in the lexical ranking; unranked symbols come last
LexRank(id) ==
  IF index[id].lex # NoSignal THEN index[id].lex ELSE Cardinality(RawRanks) + 1

\* C16: results are in non-increasing hybridScore order and results with
\* equal hybridScore are in lexical-rank order.
C16_StableTieBreak ==
  (Searched /\ srch.completed) =>
    \A i, j \in DOMAIN res : i < j =>
      /\ ~FLess(res[i].hybrid_score, res[j].hybrid_score)
      /\ FEq(res[i].hybrid_score, res[j].hybrid_score)
           => LexRank(res[i].id) <= LexRank(res[j].id)

\* C27: every result of hybridSearch was matched by a stage (the lexical
\* query or the vector neighbour search); a symbol matched by neither is
\* never returned, even when fewer than topK symbols matched.
C27_OnlyMatchedReturned ==
  srch.op = "hybridSearch" =>
    \A i \in DOMAIN res :
      \/ index[res[i].id].lex # NoSignal
      \/ index[res[i].id].dist # NoSignal

\* the candidate is among the neighbour results of the last search-code run
\* (knnSearch is asked for rerankN rows, more than the index holds)
InKnn(id) == index[id].dist # NoSignal

\* C30: in the re-ranking of search-code the vector score is non-increasing
\* in the vector distance: distance 0 gives the maximal score 1, and a
\* candidate absent from the neighbour results scores strictly lower than
\* every candidate that is present.
C30_VectorScoreMonotone ==
  (srch.op = "searchCode" /\ srch.fused) =>
    \A i \in DOMAIN res, j \in DOMAIN res :
      /\ (InKnn(res[i].id) /\ index[res[i].id].dist = 0) =>
           FEq(res[i].vec_score, FOne)
      /\ (InKnn(res[i].id) /\ InKnn(res[j].id)
            /\ index[res[i].id].dist <= index[res[j].id].dist) =>
           ~FLess(res[i].vec_score, res[j].vec_score)
      /\ (InKnn(res[i].id) /\ ~InKnn(res[j].id)) =>
           FLess(res[j].vec_score, res[i].vec_score)

(***************************************************************************)
(* Chunking: EnhancedCodeIndexer and TreeSitterIndexer.                    *)
(* A file is its sequence of lines; a line is "fn" (a function declaration *)
(* opening a block, `function f() {`), "close" (`}`) or "code".            *)
(***************************************************************************)
MaxLines == 2

MaxChunkLines == 2

DefaultMaxChunkLines == 200

BlockEndFallback == 50

LineKinds == {"fn", "close", "code"}

FilePaths == {"src/a.ts", "dist/a.js"}

Unreadable == <<"ENOENT">>

\* text.split(/\r?\n/) never yields an empty array
FileContents == UNION {[1..n -> LineKinds] : n \in 1..MaxLines}

\* lower.startsWith('dist/') || ... : transpiled output is not parsed
IsTranspiled(path) == path = "dist/a.js"

\* The file systems considered: every content for the source file, one-line
\* contents for the transpiled file, and either file may be unreadable.
FileSystems ==
  {f \in [FilePaths -> FileContents \cup {Unreadable}] :
     \A p \in FilePaths :
       (IsTranspiled(p) /\ f[p] # Unreadable) => Len(f[p]) = 1}

\* treeSitter.extractSymbols: the declarations the parser finds
ExtractSymbols(lines) == {i \in DOMAIN lines : lines[i] = "fn"}

\* findBlockEnd, with 1-based line numbers: the line on which the brace
\* count returns to 0, or min(start + 50, last line) when it never does
RECURSIVE FindBlockEndFrom(_, _, _, _)
FindBlockEndFrom(lines, start, i, braceCount) ==
  IF i > Len(lines) THEN Min(start + BlockEndFallback, Len(lines))
  ELSE IF lines[i] = "fn" THEN FindBlockEndFrom(lines, start, i + 1, braceCount + 1)
  ELSE IF lines[i] = "close"
       THEN IF braceCount = 1 THEN i
            ELSE FindBlockEndFrom(lines, start, i + 1, braceCount - 1)
  ELSE FindBlockEndFrom(lines, start, i + 1, braceCount)

FindBlockEnd(lines, start) == FindBlockEndFrom(lines, start, start, 0)

RECURSIVE SymbolChunksFrom(_, _, _)
SymbolChunksFrom(lines, i, mode) ==
  IF i > Len(lines) THEN <<>>
  ELSE IF lines[i] = "fn"
       THEN <<[lineStart |-> i, lineEnd |-> FindBlockEnd(lines, i),
               parseMode |-> mode]>> \o SymbolChunksFrom(lines, i + 1, mode)
       ELSE SymbolChunksFrom(lines, i + 1, mode)

\* extractSymbolsHeuristically / extractTypeScriptSymbols
ExtractSymbolsHeuristically(lines) == SymbolChunksFrom(lines, 1, "heuristic")

\* options.maxChunkLines ?? 200: any number the caller configured (0 and
\* negative numbers are kept by ??), or the default when it is undefined
ChunkLineOptions == (-1..MaxChunkLines) \cup {DefaultMaxChunkLines}

\* for (let i = 0; i < lines.length; i += maxLines): after k iterations i is
\* k * maxLines, so the loop ends iff some k brings it to lines.length
LoopEnds(lines, maxLines) ==
  \E k \in 0..Len(lines) : k * maxLines >= Len(lines)

\* fallbackToHeuristicChunking: windows of maxLines lines; the text of a
\* chunk is lines.slice(i, Math.min(i + maxLines, lines.length))
RECURSIVE FallbackFrom(_, _, _)
FallbackFrom(lines, i, maxLines) ==
  IF i >= Len(lines) THEN <<>>
  ELSE <<[lineStart |-> i + 1, lineEnd |-> Min(i + maxLines, Len(lines)),
          parseMode |-> "heuristic",
          text |-> SubSeq(lines, i + 1, Min(i + maxLines, Len(lines)))]>>
       \o FallbackFrom(lines, i + maxLines, maxLines)

FallbackToHeuristicChunking_FromOne(lines, maxLines) == FallbackFrom(lines, 1, maxLines)

FallbackToHeuristicChunking(lines, maxLines) == FallbackFrom(lines, 0, maxLines)

\* enhancedHeuristicChunking: [chunks, invoked tiers, returned]; when the
\* window loop cannot end the call never returns
EnhancedHeuristicChunking(lines, maxLines) ==
  LET symbols == ExtractSymbolsHeuristically(lines)
  IN  IF Len(symbols) > 0
      THEN [chunks |-> symbols, invoked |-> {"heuristic"}, returned |-> TRUE]
      ELSE IF LoopEnds(lines, maxLines)
      THEN [chunks |-> FallbackToHeuristicChunking(lines, maxLines),
            invoked |-> {"heuristic", "fixed"}, returned |-> TRUE]
      ELSE [chunks |-> <<>>, invoked |-> {"heuristic", "fixed"},
            returned |-> FALSE]

\* EnhancedCodeIndexer.initialize
Initialize ==
  /\ \E initOk \in BOOLEAN :
       initialized' = IF initialized THEN TRUE ELSE initOk
  /\ chunkObs' = [op |-> "initialize"]
  /\ UNCHANGED <<treeSitterAvailable, files, vecVars, idxVars, srchVars, astVars, ctxVars, cmdVars>>

\* EnhancedCodeIndexer.chunkFileWithTreeSitter: readFileSync may throw;
\* otherwise the call returns what enhancedHeuristicChunking returns.
ChunkFileWithTreeSitter ==
  /\ \E path \in FilePaths, maxLines \in ChunkLineOptions :
       IF files[path] = Unreadable
       THEN chunkObs' = [op |-> "chunkFileWithTreeSitter", path |-> path,
                         astLoaded |-> initialized, threw |-> TRUE,
                         returned |-> FALSE, maxLines |-> maxLines,
                         invoked |-> {}, chunks |-> <<>>]
       ELSE LET r == EnhancedHeuristicChunking(files[path], maxLines)
            IN  chunkObs' = [op |-> "chunkFileWithTreeSitter", path |-> path,
                             astLoaded |-> initialized, threw |-> FALSE,
                             returned |-> r.returned, maxLines |-> maxLines,
                             invoked |-> r.invoked, chunks |-> r.chunks]
  /\ UNCHANGED <<initialized, treeSitterAvailable, files,
                 vecVars, idxVars, srchVars, astVars, ctxVars, cmdVars>>

WholeFile(lines) ==
  <<[lineStart |-> 1, lineEnd |-> Len(lines), parseMode |-> "treesitter-fallback"]>>

\* TreeSitterIndexer.chunkFile
ChunkFile ==
  /\ \E path \in FilePaths, parseOk \in BOOLEAN :
       LET lines == files[path]
           obs == [op |-> "chunkFile", path |-> path,
                   astLoaded |-> treeSitterAvailable, threw |-> FALSE,
                   invoked |-> {}, chunks |-> <<>>]
       IN  chunkObs' =
             IF lines = Unreadable THEN obs
             ELSE IF IsTranspiled(path)
                  THEN [obs EXCEPT !.invoked = {"fixed"},
                                   !.chunks = WholeFile(lines)]
             ELSE IF treeSitterAvailable /\ parseOk
                  THEN [obs EXCEPT !.invoked = {"ast"},
                                   !.chunks = SymbolChunksFrom(lines, 1, "treesitter")]
             ELSE [obs EXCEPT !.invoked = IF treeSitterAvailable
                                          THEN {"ast", "fixed"} ELSE {"fixed"},
                              !.chunks = WholeFile(lines)]
  /\ UNCHANGED <<initialized, treeSitterAvailable, files,
                 vecVars, idxVars, srchVars, astVars, ctxVars, cmdVars>>

\* CodeIndexer.walkFiles: the files of the project, in directory order
WalkFiles == Perms(FilePaths)

\* CodeIndexer.chunkFile(fullPath, maxChunkLines): fixed-size line windows
CodeIndexerChunkFile(lines, maxChunkLines) == FallbackFrom(lines, 0, maxChunkLines)

\* The body of the loop of indexFilesWithTreeSitter for one file: the chunks
\* of the file, or the error of readFileSync, or a call that never returns.
FileChunks(path, useTreeSitter, maxLines) ==
  IF files[path] = Unreadable
  THEN [threw |-> TRUE, returned |-> FALSE, chunks |-> <<>>]
  ELSE IF useTreeSitter
  THEN LET r == EnhancedHeuristicChunking(files[path], maxLines)
       IN  [threw |-> FALSE, returned |-> r.returned, chunks |-> r.chunks]
  ELSE LET c == CodeIndexerChunkFile(files[path], maxLines)
       IN  [threw |-> FALSE, returned |-> TRUE,
            chunks |-> [k \in DOMAIN c |-> [c[k] EXCEPT !.parseMode = "fallback"]]]

\* for (const file of files) { chunks = ...; for (const chunk of chunks)
\* { await onChunk(chunk); count++ } }: nothing catches an error, so the
\* first file that throws ends the run.
RECURSIVE IndexFilesFrom(_, _, _, _, _)
IndexFilesFrom(order, k, useTreeSitter, maxLines, acc) ==
  IF k > Len(order) THEN [acc EXCEPT !.returned = TRUE]
  ELSE LET r == FileChunks(order[k], useTreeSitter, maxLines)
       IN  IF r.threw THEN [acc EXCEPT !.threw = TRUE]
           ELSE IF ~r.returned THEN acc
           ELSE IndexFilesFrom(order, k + 1, useTreeSitter, maxLines,
                  [acc EXCEPT
                     !.delivered = @ \o [i \in DOMAIN r.chunks |->
                                           [file |-> order[k], chunk |-> r.chunks[i]]],
                     !.count = @ + Len(r.chunks)])

\* EnhancedCodeIndexer.indexFilesWithTreeSitter.  CodeIndexer.chunkFile is
\* called with the configured window size only for sizes of at least one line.
IndexFilesWithTreeSitter ==
  /\ \E useTreeSitter \in BOOLEAN, initOk \in BOOLEAN, order \in WalkFiles :
     \E maxLines \in IF useTreeSitter THEN ChunkLineOptions
                     ELSE {m \in ChunkLineOptions : m >= 1} :
       LET run == IndexFilesFrom(order, 1, useTreeSitter, maxLines,
                    [delivered |-> <<>>, count |-> 0,
                     threw |-> FALSE, returned |-> FALSE])
       IN  /\ initialized' = IF useTreeSitter /\ ~initialized THEN initOk
                             ELSE initialized
           /\ chunkObs' = [op |-> "indexFilesWithTreeSitter", order |-> order,
                           useTreeSitter |-> useTreeSitter,
                           maxLines |-> maxLines, threw |-> run.threw,
                           returned |-> run.returned, count |-> run.count,
                           delivered |-> run.delivered]
  /\ UNCHANGED <<treeSitterAvailable, files, vecVars, idxVars, srchVars, astVars, ctxVars, cmdVars>>

ChkInit ==
  /\ initialized = FALSE
  /\ treeSitterAvailable \in BOOLEAN
  /\ files \in FileSystems
  /\ chunkObs = NoCall

InitChunk == VecIdle /\ IdxIdle /\ SrchIdle /\ ChkInit /\ AstIdle /\ CtxIdle /\ CmdIdle

NextChunk ==
  \/ Initialize
  \/ ChunkFileWithTreeSitter
  \/ ChunkFile
  \/ IndexFilesWithTreeSitter

SpecChunk == InitChunk /\ [][NextChunk]_vars

(***************************************************************************)
(* Claims about chunking (checked under SpecChunk)                         *)
(***************************************************************************)
\* the last call chunked a readable file for which the AST tier, loaded in
\* the indexer that served the call, yields at least one symbol
AstYieldsSymbols ==
  /\ chunkObs.op \in {"chunkFileWithTreeSitter", "chunkFile"}
  /\ ~chunkObs.threw
  /\ chunkObs.astLoaded
  /\ files[chunkObs.path] # Unreadable
  /\ ExtractSymbols(files[chunkObs.path]) # {}

\* C10: for any file, if the AST tier yields at least one symbol, the
\* heuristic tier and the fixed-window tier are never invoked for that file.
C10_AstTierWins ==
  AstYieldsSymbols => chunkObs.invoked \cap {"heuristic", "fixed"} = {}

\* the last call was a batch run with window sizes of at least one line
BatchRun ==
  /\ chunkObs.op = "indexFilesWithTreeSitter"
  /\ chunkObs.maxLines >= 1

Readable == {p \in FilePaths : files[p] # Unreadable}

\* C21: in a batch run a file that cannot be read is skipped and the run
\* continues: the run returns, every chunk of every readable file has been
\* passed to onChunk, and the returned count is the number of those chunks.
C21_UnreadableFileSkipped ==
  (BatchRun /\ Readable # FilePaths) =>
    /\ ~chunkObs.threw
    /\ chunkObs.returned
    /\ \A p \in Readable :
         LET c == FileChunks(p, chunkObs.useTreeSitter, chunkObs.maxLines).chunks
         IN  \A k \in DOMAIN c :
               \E d \in DOMAIN chunkObs.delivered :
                 chunkObs.delivered[d] = [file |-> p, chunk |-> c[k]]
    /\ chunkObs.count = Len(chunkObs.delivered)

\* the last call produced fixed-window chunks with a window of m >= 1 lines
FixedWindows ==
  /\ chunkObs.op = "chunkFileWithTreeSitter"
  /\ ~chunkObs.threw
  /\ chunkObs.maxLines >= 1
  /\ "fixed" \in chunkObs.invoked

\* C25: for a file of n lines and a window of m >= 1 lines the fixed-window
\* chunks partition the file: the first starts at line 1, each next one
\* starts at the previous lineEnd + 1, the last ends at line n, none spans
\* more than m lines, and the text of each is the lines lineStart..lineEnd.
C25_FixedWindowsPartition ==
  FixedWindows =>
    LET c == chunkObs.chunks
        lines == files[chunkObs.path]
    IN  /\ chunkObs.returned
        /\ Len(c) >= 1
        /\ c[1].lineStart = 1
        /\ \A k \in 2..Len(c) : c[k].lineStart = c[k - 1].lineEnd + 1
        /\ c[Len(c)].lineEnd = Len(lines)
        /\ \A k \in DOMAIN c :
             /\ c[k].lineStart <= c[k].lineEnd
             /\ c[k].lineEnd - c[k].lineStart + 1 <= chunkObs.maxLines
             /\ c[k].text = SubSeq(lines, c[k].lineStart, c[k].lineEnd)

\* a file of two different lines was cut into more than one window
C25_Witness ==
  /\ FixedWindows
  /\ Len(chunkObs.chunks) >= 2
  /\ chunkObs.chunks[1].text # chunkObs.chunks[2].text

\* C26: fixed-window chunking returns a finite chunk list for every file and
\* every configured maxChunkLines, 0 and negative values included.
C26_FixedWindowsTerminate ==
  /\ (chunkObs.op = "chunkFileWithTreeSitter" /\ ~chunkObs.threw
        /\ "fixed" \in chunkObs.invoked) => chunkObs.returned
  /\ (chunkObs.op = "indexFilesWithTreeSitter" /\ ~chunkObs.threw) =>
       chunkObs.returned

(***************************************************************************)
(* AST symbol extraction (TreeSitterLoader.extractSymbols).                *)
(* The syntax tree is its nodes below the root in depth-first order, each  *)
(* with its depth, type and row range; node i declares the name i.         *)
(***************************************************************************)
MaxNodes == 3

\* the file has LineCount lines: row LineCount is past its end
LineCount == 2

Languages == {"typescript", "python"}

NodeTypes(language) ==
  IF language = "typescript"
  THEN {"class_declaration", "method_definition", "function_declaration", "class_body"}
  ELSE {"class_definition", "function_definition", "block"}

\* startPosition.row, endPosition.row of a node
RowRanges ==
  {<<0, LineCount - 1>>, <<LineCount - 1, LineCount>>, <<LineCount, LineCount>>}

\* an absent name; the name node i declares
Undefined == <<>>

NameOfNode(i) == <<i>>

\* depth-first order: a node is at most one level below its predecessor
WellNested(nodes) ==
  \A i \in DOMAIN nodes :
    nodes[i].depth <= (IF i = 1 THEN 1 ELSE nodes[i - 1].depth + 1)

Trees(language) ==
  UNION {{t \in [1..n -> [type : NodeTypes(language), depth : 1..MaxNodes,
                          rows : RowRanges]] : WellNested(t)} : n \in 1..MaxNodes}

DepthOf(nodes, i) == IF i = 0 THEN 0 ELSE nodes[i].depth

\* node.child(0..childCount-1), in order
Children(nodes, i) ==
  {j \in DOMAIN nodes :
     /\ j > i
     /\ nodes[j].depth = DepthOf(nodes, i) + 1
     /\ \A k \in (i + 1)..(j - 1) : nodes[k].depth > DepthOf(nodes, i)}

\* extractNameFromTSNode: the text of the first identifier or type_identifier
\* child.  A method_definition names itself with a property_identifier.
ExtractNameFromTSNode(nodes, i) ==
  IF nodes[i].type \in {"class_declaration", "function_declaration"}
  THEN NameOfNode(i) ELSE Undefined

\* extractNameFromPythonNode
ExtractNameFromPythonNode(nodes, i) ==
  IF nodes[i].type \in {"class_definition", "function_definition"}
  THEN NameOfNode(i) ELSE Undefined

\* extractSymbolFromNode: the symbols it pushes (none or one).  The
\* assignment to its parameter `parent` is local to this call.
ExtractSymbolFromNode(nodes, i, lineCnt, language, parent) ==
  LET startLine == nodes[i].rows[1]
      endLine == nodes[i].rows[2]
      type == nodes[i].type
      symbolName == IF language = "typescript"
                    THEN ExtractNameFromTSNode(nodes, i)
                    ELSE ExtractNameFromPythonNode(nodes, i)
      symbolType ==
        CASE type = "function_declaration" -> "function"
          [] type = "class_declaration" -> "class"
          [] type = "method_definition" -> "method"
          [] type = "function_definition" ->
               IF parent # Undefined THEN "method" ELSE "function"
          [] type = "class_definition" -> "class"
          [] OTHER -> "none"
      isClass == type \in {"class_declaration", "class_definition"}
      parentAfter == IF isClass /\ symbolName # Undefined THEN symbolName ELSE parent
  IN  IF startLine < 0 \/ startLine >= lineCnt \/ endLine < 0 \/ endLine >= lineCnt
      THEN <<>>
      ELSE IF symbolName # Undefined /\ symbolType # "none"
           THEN <<[name |-> symbolName, type |-> symbolType,
                   startLine |-> startLine, endLine |-> endLine,
                   parent |-> parentAfter]>>
           ELSE <<>>

\* traverseTreeSitterNode over node i (0 = the root) and then its children,
\* each child called with this call's own `parent`
RECURSIVE TraverseTreeSitterNode(_, _, _, _, _)
RECURSIVE TraverseChildren(_, _, _, _, _)
TraverseTreeSitterNode(nodes, i, lineCnt, language, parent) ==
  (IF i = 0 THEN <<>>
   ELSE ExtractSymbolFromNode(nodes, i, lineCnt, language, parent))
  \o TraverseChildren(nodes, Children(nodes, i), lineCnt, language, parent)

TraverseChildren(nodes, todo, lineCnt, language, parent) ==
  IF todo = {} THEN <<>>
  ELSE LET c == CHOOSE x \in todo : \A y \in todo : x <= y
       IN  TraverseTreeSitterNode(nodes, c, lineCnt, language, parent)
           \o TraverseChildren(nodes, todo \ {c}, lineCnt, language, parent)

\* TreeSitterLoader.extractSymbols: no parser for the language, or the parse
\* throws, gives []
ExtractSymbolsAst ==
  /\ \E parserOk \in BOOLEAN :
       astObs' = [op |-> "extractSymbols",
                  symbols |-> IF parserOk
                              THEN TraverseTreeSitterNode(ast.nodes, 0, ast.lineCount,
                                                          ast.language, Undefined)
                              ELSE <<>>,
                  parsed |-> parserOk]
  /\ UNCHANGED <<ast, vecVars, idxVars, srchVars, chkVars, ctxVars, cmdVars>>

AstInit ==
  /\ \E language \in Languages :
       \E t \in Trees(language) :
         ast = [language |-> language, lineCount |-> LineCount, nodes |-> t]
  /\ astObs = NoCall

InitAst == VecIdle /\ IdxIdle /\ SrchIdle /\ ChkIdle /\ AstInit /\ CtxIdle /\ CmdIdle

NextAst == ExtractSymbolsAst

SpecAst == InitAst /\ [][NextAst]_vars

(***************************************************************************)
(* Claims about AST symbol extraction (checked under SpecAst)              *)
(***************************************************************************)
ClassTypes == {"class_declaration", "class_definition"}

MethodTypes == {"method_definition", "function_definition"}

Ancestors(nodes, i) ==
  {j \in DOMAIN nodes :
     /\ j < i
     /\ nodes[j].depth < nodes[i].depth
     /\ \A k \in (j + 1)..i : nodes[k].depth > nodes[j].depth}

\* the name of the nearest enclosing class of node i, if there is one
EnclosingClassName(nodes, i) ==
  LET cs == {j \in Ancestors(nodes, i) : nodes[j].type \in ClassTypes}
  IN  IF cs = {} THEN Undefined
      ELSE NameOfNode(CHOOSE j \in cs : \A k \in cs : k <= j)

\* class Foo { bar() {} }: a class, its body, and one method in the body,
\* all within the file
IsFooBar ==
  /\ Len(ast.nodes) = 3
  /\ ast.nodes[1].type \in ClassTypes
  /\ ast.nodes[1].depth = 1
  /\ ast.nodes[2].type \in {"class_body", "block"}
  /\ ast.nodes[2].depth = 2
  /\ ast.nodes[3].type \in MethodTypes
  /\ ast.nodes[3].depth = 3
  /\ \A i \in 1..3 : ast.nodes[i].rows[2] < ast.lineCount

NameKindParent(sym) == <<sym.name, sym.type, sym.parent>>

\* C11: for a file declaring class Foo that contains method bar, extraction
\* yields exactly Foo (class, no parent) and bar (method, parent Foo); in
\* general every symbol carries the name of its nearest enclosing class as
\* parent, and a top-level class has none.
C11_ParentIsEnclosingClass ==
  (astObs.op = "extractSymbols" /\ astObs.parsed) =>
    /\ \A k \in DOMAIN astObs.symbols :
         astObs.symbols[k].parent =
           EnclosingClassName(ast.nodes, astObs.symbols[k].name[1])
    /\ IsFooBar =>
         [k \in DOMAIN astObs.symbols |-> NameKindParent(astObs.symbols[k])]
           = << <<NameOfNode(1), "class", Undefined>>,
                <<NameOfNode(3), "method", NameOfNode(1)>> >>

\* the nodes extraction can name that lie within the file
InBoundsNamed ==
  {i \in DOMAIN ast.nodes :
     /\ ast.nodes[i].rows[2] < ast.lineCount
     /\ (IF ast.language = "typescript"
         THEN ExtractNameFromTSNode(ast.nodes, i)
         ELSE ExtractNameFromPythonNode(ast.nodes, i)) # Undefined}

\* C12: every symbol emitted by symbol extraction (AST or heuristic) has
\* 0 <= startLine <= endLine < fileLineCount; a node outside the file is
\* skipped, and skipping it does not stop the extraction of the other nodes.
C12_SymbolLinesInBounds ==
  /\ (astObs.op = "extractSymbols" /\ astObs.parsed) =>
       /\ \A k \in DOMAIN astObs.symbols :
            /\ 0 <= astObs.symbols[k].startLine
            /\ astObs.symbols[k].startLine <= astObs.symbols[k].endLine
            /\ astObs.symbols[k].endLine < ast.lineCount
       /\ \A i \in InBoundsNamed :
            \E k \in DOMAIN astObs.symbols : astObs.symbols[k].name = NameOfNode(i)
  /\ (chunkObs.op = "chunkFileWithTreeSitter" /\ ~chunkObs.threw
        /\ chunkObs.invoked = {"heuristic"}) =>
       \A k \in DOMAIN chunkObs.chunks :
         /\ 0 <= chunkObs.chunks[k].lineStart
         /\ chunkObs.chunks[k].lineStart <= chunkObs.chunks[k].lineEnd
         /\ chunkObs.chunks[k].lineEnd < Len(files[chunkObs.path])

(***************************************************************************)
(* Context bundles: export-context and import-context.                     *)
(* A text is the sequence of its characters; a token that holds neither a  *)
(* comma nor a quote (an id, a digest) stands for one character.  map.csv  *)
(* is the sequence of its lines.                                           *)
(***************************************************************************)
MaxMems == 2

Comma == ","

Quote == "\""

\* meta.file of a stored chunk: `a` or `a,b`
FileNames == {<<"a">>, <<"a", ",", "b">>}

\* hex digest of a chunk's content, one token
HexDigest(content) == ToString(Sha256(content))

\* no bundle directory at the export path
NoBundle == [present |-> {}]

\* MemoryEngine.storeMemory / database.listMemories: a code chunk stored by
\* indexing, with its metadata
CodeMemory(id, file) ==
  [id |-> id, file |-> file, ls |-> <<"1">>, le |-> <<"2">>, content |-> <<"c">>]

\* the memory import-context stores for a row: the content names the row's
\* origin and no metadata is passed to storeMemory
ImportedMemory(id, row) ==
  [id |-> id, file |-> <<>>, ls |-> <<>>, le |-> <<>>,
   content |-> <<"[Imported from ">> \o row[2] \o <<":">> \o row[4]
               \o <<"-">> \o row[5] \o <<"]">>]

\* `${file}:${ls}:${le}:${sha}`
ExportKey(m) ==
  m.file \o <<":">> \o m.ls \o <<":">> \o m.le \o <<":", HexDigest(m.content)>>

\* String(v).replace(/"/g, '""')
RECURSIVE EscapeQuotes(_)
EscapeQuotes(v) ==
  IF v = <<>> THEN <<>>
  ELSE (IF Head(v) = Quote THEN <<Quote, Quote>> ELSE <<Head(v)>>)
       \o EscapeQuotes(Tail(v))

\* /,|"/.test(v) ? `"${v}"` : v
CsvField(v) ==
  LET e == EscapeQuotes(v)
  IN  IF \E i \in DOMAIN e : e[i] \in {Comma, Quote}
      THEN <<Quote>> \o e \o <<Quote>>
      ELSE e

\* .join(',')
RECURSIVE JoinFields(_)
JoinFields(fields) ==
  IF Len(fields) = 0 THEN <<>>
  ELSE IF Len(fields) = 1 THEN fields[1]
  ELSE fields[1] \o <<Comma>> \o JoinFields(Tail(fields))

\* [m.id, file, lang, ls, le, sym, typ, ts, chunkSha]
RowFields(m) ==
  <<<<ToString(m.id)>>, m.file, <<>>, m.ls, m.le, <<>>, <<>>, <<"t">>,
    <<HexDigest(m.content)>>>>

CsvHeader ==
  <<"id", Comma, "file", Comma, "lang", Comma, "line_start", Comma, "line_end",
    Comma, "symbol", Comma, "type", Comma, "timestamp", Comma, "chunk_sha256">>

\* map.csv of an export of list
MapCsv(list) ==
  <<CsvHeader>> \o
  [i \in DOMAIN list |->
     JoinFields([k \in 1..9 |-> CsvField(RowFields(list[i])[k])])]

\* line.split(','): every comma ends a part
RECURSIVE SplitCommaFrom(_, _, _)
SplitCommaFrom(line, i, cur) ==
  IF i > Len(line) THEN <<cur>>
  ELSE IF line[i] = Comma THEN <<cur>> \o SplitCommaFrom(line, i + 1, <<>>)
  ELSE SplitCommaFrom(line, i + 1, Append(cur, line[i]))

SplitComma(line) == SplitCommaFrom(line, 1, <<>>)

\* p.replace(/^"|"$/g, '')
StripEndQuotes(p) ==
  LET a == IF Len(p) > 0 /\ p[1] = Quote THEN Tail(p) ELSE p
  IN  IF Len(a) > 0 /\ a[Len(a)] = Quote THEN SubSeq(a, 1, Len(a) - 1) ELSE a

\* const [, file, , ls, le, , , , chunkSha] = parts.map(strip quotes)
KeyOfParts(parts) ==
  StripEndQuotes(parts[2]) \o <<":">> \o StripEndQuotes(parts[4]) \o <<":">>
  \o StripEndQuotes(parts[5]) \o <<":">> \o StripEndQuotes(parts[9])

\* loadPreviousExportIndex: the keys of the rows of the previous map.csv
PrevKeys(map) ==
  {KeyOfParts(parts) :
     parts \in {p \in {SplitComma(map[j]) : j \in 2..Len(map)} : Len(p) >= 9}}

\* sha256 of manifest.json as the delta block records it.  The digest of
\* the base's own base is left out so that chains of deltas stay finite.
ManifestDigest(m) ==
  <<"sha256", m.count, m.keyId, m.delta.present, m.delta.exportedCount>>

NoDelta ==
  [present |-> FALSE, baseManifestDigest |-> <<>>, originalCount |-> 0,
   unchangedSkipped |-> 0, exportedCount |-> 0]

\* the local ED25519 key pair
PublicKey == "pub1"

\* crypto.sign(null, digest, privateKey)
Sign(digest) == [digest |-> digest, key |-> PublicKey]

\* crypto.verify(null, digest, publicKey, signature)
Verify(digest, pub, sig) == sig = [digest |-> digest, key |-> pub]

\* sha256(publicKey).slice(0, 16)
KeyIdOf(pub) == ToString(Sha256(pub))

\* sha.update(manifest); sha.update(map.csv); sha.update(vectors.f32)
SignedDigest(manifest, map, vectors) == Sha256(<<manifest, map, vectors>>)

\* wantSign as handleExportContext decides it
WantSign(force, optSign, polSign, env) ==
  IF force THEN TRUE
  ELSE IF optSign # "undefined" THEN optSign = "true"
  ELSE IF polSign THEN TRUE
  ELSE env

SignDecisions ==
  {WantSign(f, o, p, e) : f \in BOOLEAN, o \in {"true", "false", "undefined"},
                          p \in BOOLEAN, e \in BOOLEAN}

\* the bytes of a file of the bundle
FileContent(b, name) ==
  CASE name = "manifest.json" -> b.manifest
    [] name = "map.csv" -> b.map
    [] name = "notes.jsonl" -> <<>>
    [] name = "vectors.f32" -> b.vectors
    [] name = "signature.bin" -> b.signature
    [] name = "publickey.der" -> b.publickey

\* list.filter(m => !prevKeys.has(key))
RECURSIVE FilterUnchanged(_, _)
FilterUnchanged(list, prevKeys) ==
  IF list = <<>> THEN <<>>
  ELSE (IF ExportKey(Head(list)) \in prevKeys THEN <<>> ELSE <<Head(list)>>)
       \o FilterUnchanged(Tail(list), prevKeys)

\* handleExportContext.  With --delta the base is the last export, which
\* lies at the export path.  When signing was wanted and failed, reading
\* signature.bin for the checksums throws and the export fails.
ExportContext ==
  /\ \E wantSign \in SignDecisions, signOk \in BOOLEAN, delta \in BOOLEAN :
     \E prevKeys \in {IF delta /\ {"manifest.json", "map.csv"} \subseteq bundle.present
                       THEN PrevKeys(bundle.map) ELSE {}} :
     \E list \in {FilterUnchanged(memories, prevKeys)} :
     \E map \in {MapCsv(list)} :
       LET prevOk == delta /\ {"manifest.json", "map.csv"} \subseteq bundle.present
           vectors == [i \in DOMAIN list |-> list[i].id]
           signedManifest == [count |-> Len(list), vectors |-> Len(vectors),
                              keyId |-> "absent", delta |-> NoDelta]
           keyId == IF wantSign /\ signOk THEN KeyIdOf(PublicKey) ELSE "absent"
           deltaBlock == IF prevOk
                         THEN [present |-> TRUE,
                               baseManifestDigest |-> ManifestDigest(bundle.manifest),
                               originalCount |-> Len(memories),
                               unchangedSkipped |-> Len(memories) - Len(list),
                               exportedCount |-> Len(list)]
                         ELSE NoDelta
           manifest == [signedManifest EXCEPT !.keyId = keyId, !.delta = deltaBlock]
           baseFiles == {"manifest.json", "map.csv", "notes.jsonl", "vectors.f32"}
                        \cup (IF wantSign THEN {"signature.bin", "publickey.der"}
                              ELSE {})
           written == [manifest |-> manifest, map |-> map, vectors |-> vectors,
                       signature |-> Sign(SignedDigest(signedManifest, map, vectors)),
                       publickey |-> PublicKey]
           out == [manifest |-> manifest, map |-> map, vectors |-> vectors,
                   signature |-> written.signature, publickey |-> PublicKey,
                   checksums |-> [f \in baseFiles |->
                                    Sha256(FileContent(written, f))],
                   present |-> baseFiles \cup {"checksums.json"},
                   snapshot |-> memories, full |-> ~prevOk, modified |-> FALSE]
           failed == wantSign /\ ~signOk
       IN  /\ bundle' = IF failed THEN bundle ELSE out
           /\ ctxObs' = [op |-> "export-context", failed |-> failed,
                         signed |-> keyId # "absent",
                         deltaApplied |-> prevOk, delta |-> deltaBlock,
                         baseCount |-> IF prevOk THEN bundle.manifest.count ELSE 0,
                         baseCurrent |-> /\ prevOk
                                         /\ bundle.full
                                         /\ ~bundle.modified
                                         /\ bundle.snapshot = memories]
  /\ UNCHANGED <<memories, vecVars, idxVars, srchVars, chkVars, astVars, cmdVars>>

\* the import's CSV parsing: a quote toggles quoting and is dropped, a comma
\* outside quotes ends the field
RECURSIVE ParseCsvFrom(_, _, _, _)
ParseCsvFrom(l, i, cur, inq) ==
  IF i > Len(l) THEN <<cur>>
  ELSE IF l[i] = Quote THEN ParseCsvFrom(l, i + 1, cur, ~inq)
  ELSE IF l[i] = Comma /\ ~inq THEN <<cur>> \o ParseCsvFrom(l, i + 1, <<>>, inq)
  ELSE ParseCsvFrom(l, i + 1, Append(cur, l[i]), inq)

\* !isNaN(parseInt(idStr, 10))
IsNumeric(field) ==
  Len(field) = 1 /\ field[1] \in {ToString(n) : n \in 0..(MaxMems + 1)}

\* the rows of map.csv that the import loop stores
ImportableRows(map) ==
  LET lines == SelectSeq(Tail(map), LAMBDA l : l # <<>>)
      rws == [i \in DOMAIN lines |-> ParseCsvFrom(lines[i], 1, <<>>, FALSE)]
  IN  SelectSeq(rws, LAMBDA r : Len(r) >= 8 /\ IsNumeric(r[1]))

\* the checksum loop of handleImportContext
ChecksumMismatch(b) ==
  /\ "checksums.json" \in b.present
  /\ \E f \in DOMAIN b.checksums :
       \/ f \notin b.present
       \/ Sha256(FileContent(b, f)) # b.checksums[f]

\* handleImportContext.  policyThrows: policyBroker.getPolicy() or
\* isTrusted() throws, which the empty catch around the enforcement swallows.
ImportContext ==
  /\ bundle.present # {}
  /\ \E requireSigned \in BOOLEAN, allowUnsigned \in BOOLEAN, policyThrows \in BOOLEAN :
       LET required == {"manifest.json", "map.csv", "vectors.f32"} \subseteq bundle.present
           sigPresent == {"signature.bin", "publickey.der"} \subseteq bundle.present
           ok == Verify(SignedDigest(bundle.manifest, bundle.map, bundle.vectors),
                        bundle.publickey, bundle.signature)
           verified == sigPresent /\ ok
           invalidSignature == sigPresent /\ ~ok
           checksumMismatch == ChecksumMismatch(bundle)
           exitCode == IF ~required THEN 1
                       ELSE IF policyThrows THEN 0
                       ELSE IF checksumMismatch THEN 4
                       ELSE IF requireSigned /\ invalidSignature THEN 3
                       ELSE IF requireSigned /\ ~verified /\ ~allowUnsigned THEN 2
                       ELSE 0
           rws == IF exitCode = 0 THEN ImportableRows(bundle.map) ELSE <<>>
       IN  /\ Len(memories) + Len(rws) <= MaxMems
           /\ memories' = memories \o
                [i \in DOMAIN rws |-> ImportedMemory(Len(memories) + i, rws[i])]
           /\ ctxObs' = [op |-> "import-context", required |-> required,
                         verified |-> required /\ verified,
                         invalidSignature |-> required /\ invalidSignature,
                         checksumMismatch |-> required /\ checksumMismatch,
                         requireSigned |-> requireSigned,
                         policyThrew |-> policyThrows,
                         exitCode |-> exitCode, stored |-> Len(rws)]
  /\ UNCHANGED <<bundle, vecVars, idxVars, srchVars, chkVars, astVars, cmdVars>>

\* Someone changes the exported bundle: a row is appended to map.csv, or
\* notes.jsonl or vectors.f32 is removed; checksums.json is left as it was.
ModifyBundle ==
  /\ bundle.present # {}
  /\ ~bundle.modified
  /\ \E what \in {"map.csv", "notes.jsonl", "vectors.f32"} :
       bundle' = IF what = "map.csv"
                 THEN [bundle EXCEPT !.map = Append(@, <<"x">>), !.modified = TRUE]
                 ELSE [bundle EXCEPT !.present = @ \ {what}, !.modified = TRUE]
  /\ ctxObs' = [op |-> "modifyBundle"]
  /\ UNCHANGED <<memories, vecVars, idxVars, srchVars, chkVars, astVars, cmdVars>>

\* index-code stores one more code chunk
StoreCodeMemory ==
  /\ Len(memories) < MaxMems
  /\ \E file \in FileNames :
       memories' = Append(memories, CodeMemory(Len(memories) + 1, file))
  /\ ctxObs' = [op |-> "storeMemory"]
  /\ UNCHANGED <<bundle, vecVars, idxVars, srchVars, chkVars, astVars, cmdVars>>

CtxInit ==
  /\ memories = <<>>
  /\ bundle = NoBundle
  /\ ctxObs = NoCall

InitCtx == VecIdle /\ IdxIdle /\ SrchIdle /\ ChkIdle /\ AstIdle /\ CtxInit /\ CmdIdle

NextCtx ==
  \/ StoreCodeMemory
  \/ ExportContext
  \/ ModifyBundle
  \/ ImportContext

SpecCtx == InitCtx /\ [][NextCtx]_vars

(***************************************************************************)
(* Claims about context bundles (checked under SpecCtx)                    *)
(***************************************************************************)
\* the last run imported the bundle that export-context signed and nobody
\* modified since
ImportedSignedBundle ==
  /\ ctxObs.op = "import-context"
  /\ bundle.manifest.keyId # "absent"
  /\ ~bundle.modified

\* C22: a bundle written by export-context with signing and not modified
\* afterwards passes the signature verification of import-context (verified,
\* not invalidSignature), so a policy that requires a signed context does
\* not block its import.
C22_SignedExportVerifies ==
  ImportedSignedBundle =>
    /\ ctxObs.verified
    /\ ~ctxObs.invalidSignature
    /\ (ctxObs.requireSigned /\ ~ctxObs.policyThrew) => ctxObs.exitCode = 0

\* C23: a delta export against a full base export, with no memory changed
\* since that base, exports nothing: exportedCount = 0 and unchangedSkipped
\* is the base export's count, whatever the file paths of the memories.
C23_EmptyDelta ==
  (ctxObs.op = "export-context" /\ ~ctxObs.failed /\ ctxObs.baseCurrent) =>
    /\ ctxObs.delta.present
    /\ ctxObs.delta.exportedCount = 0
    /\ ctxObs.delta.unchangedSkipped = ctxObs.baseCount

\* C29: import-context stores nothing from a bundle whose checksums.json
\* lists a file that is missing or whose sha256 differs: the import ends
\* with exit code 4 and no memory written, whatever the policy settings and
\* even when reading the policy fails.
C29_ChecksumMismatchBlocks ==
  (ctxObs.op = "import-context" /\ ChecksumMismatch(bundle)) =>
    /\ ctxObs.exitCode = 4
    /\ ctxObs.stored = 0

(***************************************************************************)
(* Commands and receipts: MemoryHandlers.remember / recall with            *)
(* PolicyService and TracingService.                                       *)
(***************************************************************************)
MaxReceipts == 3

Commands == {"remember", "recall"}

\* TracingService.writeReceipt: nothing is written without a tracer
WriteReceipt(rs, tracer, operation, success) ==
  IF tracer THEN Append(rs, [operation |-> operation, success |-> success])
  ELSE rs

\* TracingService.appendJournal
AppendJournal(js, tracer, cmd, success) ==
  IF tracer THEN Append(js, [cmd |-> cmd, success |-> success]) ELSE js

\* TracingService.traceCommand: with --dry-run the receipt and the journal
\* entry are written and the command does not continue; flags.dryRun is
\* read from the tracer
TraceCommand(rs, js, tracer, cmd, dryRunFlag) ==
  IF tracer /\ dryRunFlag
  THEN [receipts |-> WriteReceipt(rs, tracer, cmd, TRUE),
        journal |-> AppendJournal(js, tracer, cmd, TRUE),
        shouldContinue |-> FALSE]
  ELSE [receipts |-> rs, journal |-> js, shouldContinue |-> TRUE]

\* MemoryHandlers.remember and MemoryHandlers.recall, which differ in the
\* service call only.  allowed: enforcePolicyBeforeCommand(cmd).allowed;
\* opOk: result.success of storeMemory / recallMemories.
RunCommand(cmd) ==
  /\ Len(receipts) < MaxReceipts
  /\ \E tracer \in BOOLEAN, allowed \in BOOLEAN, dryRunFlag \in BOOLEAN,
        opOk \in BOOLEAN :
       LET t == TraceCommand(receipts, journal, tracer, cmd, dryRunFlag)
           outcome == IF ~allowed THEN "denied"
                      ELSE IF ~t.shouldContinue THEN "dryRun"
                      ELSE IF opOk THEN "success"
                      ELSE "failure"
       IN  /\ receipts' = IF outcome = "denied" THEN receipts
                          ELSE IF outcome = "dryRun" THEN t.receipts
                          ELSE WriteReceipt(receipts, tracer, cmd, opOk)
           /\ journal' = IF outcome = "denied" THEN journal
                         ELSE IF outcome = "dryRun" THEN t.journal
                         ELSE AppendJournal(journal, tracer, cmd, opOk)
           /\ cmdObs' = [op |-> cmd, outcome |-> outcome, tracer |-> tracer,
                         exitCode |-> IF outcome \in {"denied", "failure"}
                                      THEN 1 ELSE 0,
                         receiptsBefore |-> Len(receipts),
                         journalBefore |-> Len(journal)]
  /\ UNCHANGED <<vecVars, idxVars, srchVars, chkVars, astVars, ctxVars>>

Remember == RunCommand("remember")

Recall == RunCommand("recall")

CmdInit ==
  /\ receipts = <<>>
  /\ journal = <<>>
  /\ cmdObs = NoCall

InitCmd == VecIdle /\ IdxIdle /\ SrchIdle /\ ChkIdle /\ AstIdle /\ CtxIdle /\ CmdInit

NextCmd ==
  \/ Remember
  \/ Recall

SpecCmd == InitCmd /\ [][NextCmd]_vars

\* C24: every run of remember, recall or search-code, whatever its outcome
\* (success, operation failure, policy denial, dry-run), writes a receipt
\* and appends a journal entry before the command ends.
C24_EveryRunLeavesReceipt ==
  /\ cmdObs.op \in Commands =>
       /\ Len(receipts) = cmdObs.receiptsBefore + 1
       /\ Len(journal) = cmdObs.journalBefore + 1
       /\ receipts[Len(receipts)].operation = cmdObs.op
       /\ journal[Len(journal)].cmd = cmdObs.op
  /\ srch.op = "searchCode" => (srch.receipt /\ srch.journaled)

====
